---------------------------- MODULE Spec2Model ----------------------------
(***************************************************************************)
(* Model of the slurmdbd RPC manager, src/src/slurmdbd/rpc_mgr.c:          *)
(* the accept loop (rpc_mgr), the admission gate (_wait_for_server_thread, *)
(* _free_server_thread), the per-connection worker (_service_connection,   *)
(* _fd_readable) and the shutdown wake-up (rpc_mgr_wake,                   *)
(* _wait_for_thread_fini).                                                 *)
(*                                                                         *)
(* Every critical section under thread_count_lock is one atomic step.      *)
(* A thread blocked in a system call is a thread whose step is disabled.   *)
(* The client side of a connection and the Request Processor (proc_req)    *)
(* are the environment: their choices are drawn with \E.                   *)
(***************************************************************************)
EXTENDS Integers, Sequences, FiniteSets, TLC

(***************************************************************************)
(* Bounds of the model.                                                    *)
(***************************************************************************)
\* rpc_mgr.c:61 defines MAX_THREAD_COUNT as 100; the model checks a
\* scaled-down capacity.
MAX_THREAD_COUNT == 2
\* Number of distinct pthread_t values the thread library hands out; the
\* identity of a finished (detached) thread is reused.
MaxTid == 3
\* Frames one client sends on one connection.
MaxFrames == 2
\* Longest payload a client actually delivers.
MaxPayload == 2
\* Cap of the history counters of accepts and thread creations.
MaxCount == 2

\* rpc_mgr.c:67
MAX_MSG_SIZE == 16*1024*1024

Tids  == 1..MaxTid
Slots == 0..(MAX_THREAD_COUNT - 1)

(***************************************************************************)
(* Status codes of proc_req that _service_connection distinguishes.        *)
(***************************************************************************)
RcCodes == {"SLURM_SUCCESS", "ACCOUNTING_FIRST_REG", "ESLURM_ACCESS_DENIED",
            "SLURM_PROTOCOL_VERSION_ERROR", "SLURM_ERROR"}

VARIABLES
  \* ---- shared program state (rpc_mgr.c:78-81, slurmdbd.h shutdown_time)
  thread_count,      \* int thread_count
  slave_thread_id,   \* pthread_t slave_thread_id[MAX_THREAD_COUNT], 0 = free
  master_thread_id,  \* pthread_t master_thread_id, 0 until rpc_mgr starts
  shutdown_time,     \* time_t shutdown_time, modelled as zero / non-zero
  \* ---- the accept loop thread (locals of rpc_mgr)
  mpc,               \* position of the accept loop
  mi,                \* int i, the slot index returned by acquire
  retry_cnt,         \* int retry_cnt
  mtid,              \* identity of a started thread not yet stored in its slot
  mintr,             \* SIGUSR1 delivered while the accept loop is in accept()
  mconn,             \* the connection accepted and not yet handed to a worker
  relblk,            \* history: a release happened while acquire was blocked
  \* ---- the workers (locals of _service_connection), indexed by pthread_t
  pc, fini, first, msg_size, offset, msg, rc, buffer,
  wintr,             \* workers whose poll() was interrupted by SIGUSR1
  \* ---- the peer of each connection
  stream,            \* bytes sent by the peer and not yet read
  cstate,            \* "open", "fin" (peer closed), "rst" (connection error)
  \* ---- history of each connection (observation only)
  sent,              \* payloads of the complete frames the peer has sent
  reqs,              \* arguments of the proc_req calls, in call order, and
                     \* whether the shutdown flag was set at the call
  nhdr,              \* length prefixes read in full
  nbody,             \* payload read() calls since the last length prefix
  nsend,             \* slurm_persist_send_msg calls
  nerr,              \* synthesized "Bad offset" responses
  inflight,          \* requests dispatched whose response was not yet sent
  why,               \* how the receive loop was left
  ntear,             \* teardown runs
  tlog,              \* the calls teardown has made, in order
  woke,              \* rpc_mgr_wake was called with the shutdown flag set
  post,              \* connections accepted and workers created with the
                     \* shutdown flag set
  \* ---- the connection's registration (slurmdbd_conn_t, proc_req.c)
  rem_port,          \* conn->conn.rem_port, 0 for a one-shot connection
  registered         \* registered_clusters: the connections it holds

shared == <<thread_count, slave_thread_id, master_thread_id, shutdown_time>>
mvars  == <<mpc, mi, retry_cnt, mtid, mintr, mconn, relblk>>
wvars  == <<pc, fini, first, msg_size, offset, msg, rc, buffer>>
peer   == <<stream, cstate>>
hist   == <<sent, reqs, nhdr, nbody, nsend, nerr, inflight, why, ntear>>
acct   == <<rem_port, registered, tlog>>
vars   == <<shared, mvars, wvars, wintr, peer, hist, acct, woke, post>>


(***************************************************************************)
(* Helpers.                                                                *)
(***************************************************************************)
Min(a, b) == IF a < b THEN a ELSE b

\* pthread_self() of the accept loop thread: any non-zero identity that is
\* not a worker's.
MasterTid == MaxTid + 1

\* The for-loop of _wait_for_server_thread: lowest index whose slot is 0,
\* or -1 when every slot is taken.
FirstFree(tbl) ==
  IF \E i \in Slots : tbl[i] = 0
  THEN CHOOSE i \in Slots : tbl[i] = 0 /\ \A j \in Slots : j < i => tbl[j] # 0
  ELSE -1

\* Mutant of HasRoom: the bound is tested with <=.
HasRoomOffByOne(cnt) == cnt <= MAX_THREAD_COUNT

\* The test that guards the increment in _wait_for_server_thread.
HasRoom(cnt) == cnt < MAX_THREAD_COUNT

\* Mutant of ClearSlot: the release leaves the table as it is.
ClearSlotNever(tbl, my_tid) == tbl

\* The for-loop of _free_server_thread: the first slot holding my_tid is
\* set to 0; the table is unchanged when no slot holds it.
ClearSlot(tbl, my_tid) ==
  IF \E i \in Slots : tbl[i] = my_tid
  THEN LET i == CHOOSE i \in Slots :
                  tbl[i] = my_tid /\ \A j \in Slots : j < i => tbl[j] # my_tid
       IN  [tbl EXCEPT ![i] = 0]
  ELSE tbl

\* Mutant of Decrement: a release gives back two units.
DecrementTwice(cnt) == IF cnt > 1 THEN cnt - 2 ELSE 0

\* The counter after _free_server_thread: decremented, clamped at 0.
Decrement(cnt) == IF cnt > 0 THEN cnt - 1 ELSE cnt

\* Mutant of Broadcast: the release does not signal the condition.
NoBroadcast(p) == p

\* slurm_cond_broadcast(&thread_count_cond): an accept loop blocked in
\* slurm_cond_wait goes back to the top of its while(1).
Broadcast(p) == IF p = "cond_wait" THEN "acquire" ELSE p

\* The shared-state effect of _free_server_thread(my_tid); my_tid = 0 is
\* the accept loop's call after a failed accept.
free_server_thread(my_tid) ==
  /\ thread_count' = Decrement(thread_count)
  /\ slave_thread_id' = IF my_tid # 0 THEN ClearSlot(slave_thread_id, my_tid)
                        ELSE slave_thread_id

\* ntohl() of the four bytes read into nw_size, in wire order.
ntohl(b) == ((b[1] * 256 + b[2]) * 256 + b[3]) * 256 + b[4]

\* The peer's length prefix: uint32, big-endian.
EncodeLen(L) ==
  << (L \div 16777216) % 256, (L \div 65536) % 256, (L \div 256) % 256, L % 256 >>

\* Mutant of BadSize: only the upper bound is tested.
BadSizeUpperOnly(sz) == sz > MAX_MSG_SIZE

\* The length test of _service_connection.
BadSize(sz) == (sz < 2) \/ (sz > MAX_MSG_SIZE)

\* Payload bytes the peer puts in its k-th frame: all distinct.
PayloadByte(k, p) == 16 * k + p
Payload(k, d) == [p \in 1..d |-> PayloadByte(k, p)]

\* Mutant of StoreAt: every read lands at the start of msg.
StoreAtStart(m, off, chunk) ==
  [i \in 1..(off + Len(chunk)) |-> IF i <= Len(chunk) THEN chunk[i] ELSE 0]

\* read(fd, msg + offset, n) having returned the bytes chunk: they land at
\* offset, offset+1, ...
StoreAt(m, off, chunk) ==
  [i \in 1..(off + Len(chunk)) |-> IF i <= off THEN m[i] ELSE chunk[i - off]]

\* Identities are opaque, and the identity of a finished thread is handed
\* out again.  The identities a new thread can get: one that names no
\* running thread; of those that appear nowhere in slave_thread_id the
\* lowest stands for all.
Recorded(t) == \E i \in Slots : slave_thread_id[i] = t
FreshTids ==
  LET free == {t \in Tids : pc[t] = "none"}
      unrec == {t \in free : ~Recorded(t)}
  IN  {t \in free : Recorded(t)} \cup
      {t \in unrec : \A u \in unrec : t <= u}

\* Threads a SIGUSR1 finds inside poll(): each may be interrupted, or may
\* take the signal just before it blocks.
InPoll(T) == {t \in T : pc[t] \in {"recv_hdr", "recv_body"}}

\* No connection: nothing sent.
NoConn == [stream |-> <<>>, sent |-> <<>>]

(***************************************************************************)
(* Initial state: static initialisers of rpc_mgr.c:78-81, no thread yet.   *)
(***************************************************************************)
Init ==
  /\ thread_count = 0
  /\ slave_thread_id = [i \in Slots |-> 0]
  /\ master_thread_id = 0
  /\ shutdown_time = FALSE
  /\ mpc = "init" /\ mi = -1 /\ retry_cnt = 0 /\ mtid = 0 /\ mintr = FALSE
  /\ mconn = NoConn
  /\ relblk = FALSE
  /\ pc = [t \in Tids |-> "none"]
  /\ fini = [t \in Tids |-> FALSE]
  /\ first = [t \in Tids |-> TRUE]
  /\ msg_size = [t \in Tids |-> 0]
  /\ offset = [t \in Tids |-> 0]
  /\ msg = [t \in Tids |-> <<>>]
  /\ rc = [t \in Tids |-> "SLURM_SUCCESS"]
  /\ buffer = [t \in Tids |-> "null"]
  /\ wintr = {}
  /\ stream = [t \in Tids |-> <<>>]
  /\ cstate = [t \in Tids |-> "open"]
  /\ sent = [t \in Tids |-> <<>>]
  /\ reqs = [t \in Tids |-> <<>>]
  /\ nhdr = [t \in Tids |-> 0]
  /\ nbody = [t \in Tids |-> 0]
  /\ nsend = [t \in Tids |-> 0]
  /\ nerr = [t \in Tids |-> 0]
  /\ inflight = [t \in Tids |-> 0]
  /\ why = [t \in Tids |-> "running"]
  /\ ntear = [t \in Tids |-> 0]
  /\ tlog = [t \in Tids |-> <<>>]
  /\ woke = FALSE
  /\ post = [accepts |-> 0, spawns |-> 0]
  /\ rem_port = [t \in Tids |-> 0]
  /\ registered = {}

\* A history counter after one more event; only the events that come with
\* the shutdown flag set are counted, up to MaxCount.
Count(n, flag) == IF flag THEN Min(n + 1, MaxCount) ELSE n

\* The locals, the peer and the history of thread identity t as a new
\* _service_connection starts on connection c (or after it returned), at
\* position p.
ResetThread(t, p, c) ==
  /\ pc' = [pc EXCEPT ![t] = p]
  /\ fini' = [fini EXCEPT ![t] = FALSE]
  /\ first' = [first EXCEPT ![t] = TRUE]
  /\ msg_size' = [msg_size EXCEPT ![t] = 0]
  /\ offset' = [offset EXCEPT ![t] = 0]
  /\ msg' = [msg EXCEPT ![t] = <<>>]
  /\ rc' = [rc EXCEPT ![t] = "SLURM_SUCCESS"]
  /\ buffer' = [buffer EXCEPT ![t] = "null"]
  /\ wintr' = wintr \ {t}
  /\ stream' = [stream EXCEPT ![t] = c.stream]
  /\ cstate' = [cstate EXCEPT ![t] = "open"]
  /\ sent' = [sent EXCEPT ![t] = c.sent]
  /\ reqs' = [reqs EXCEPT ![t] = <<>>]
  /\ nhdr' = [nhdr EXCEPT ![t] = 0]
  /\ nbody' = [nbody EXCEPT ![t] = 0]
  /\ nsend' = [nsend EXCEPT ![t] = 0]
  /\ nerr' = [nerr EXCEPT ![t] = 0]
  /\ inflight' = [inflight EXCEPT ![t] = 0]
  /\ why' = [why EXCEPT ![t] = "running"]
  /\ ntear' = [ntear EXCEPT ![t] = 0]
  /\ tlog' = [tlog EXCEPT ![t] = <<>>]
  /\ rem_port' = [rem_port EXCEPT ![t] = 0]
  /\ UNCHANGED <<registered, woke>>

\* The process is alive: fatal() has not been called.
Alive == mpc # "fatal"

(***************************************************************************)
(* The accept loop thread, rpc_mgr().                                      *)
(***************************************************************************)
\* rpc_mgr.c:93-117: record master_thread_id, open the port, install the
\* SIGUSR1 handler.
MasterStart ==
  /\ mpc = "init"
  /\ master_thread_id' = MasterTid
  /\ mpc' = "acquire"
  /\ UNCHANGED <<thread_count, slave_thread_id, shutdown_time>>
  /\ UNCHANGED <<mi, retry_cnt, mtid, mintr, mconn, relblk>>
  /\ UNCHANGED <<wvars, wintr, peer, hist>>
  /\ UNCHANGED <<acct, woke, post>>

\* Mutant of wait_for_server_thread: the shutdown flag is looked at only
\* when no slot is free.
wait_for_server_thread_room_first ==
  /\ mpc = "acquire"
  /\ IF HasRoom(thread_count)
     THEN /\ thread_count' = thread_count + 1
          /\ mi' = FirstFree(slave_thread_id)
          /\ mpc' = IF FirstFree(slave_thread_id) = -1 THEN "fatal" ELSE "accept"
     ELSE IF shutdown_time
     THEN /\ mpc' = "fini" /\ mi' = -1
          /\ UNCHANGED <<thread_count>>
     ELSE /\ mpc' = "cond_wait"
          /\ UNCHANGED <<thread_count, mi>>
  /\ UNCHANGED <<slave_thread_id, master_thread_id, shutdown_time>>
  /\ relblk' = FALSE
  /\ UNCHANGED <<retry_cnt, mtid, mintr, mconn>>
  /\ UNCHANGED <<wvars, wintr, peer, hist>>
  /\ UNCHANGED <<acct, woke, post>>

\* One pass of the while(1) of _wait_for_server_thread, under the lock.
wait_for_server_thread ==
  /\ mpc = "acquire"
  /\ IF shutdown_time
     THEN \* break with rc = -1: the while of rpc_mgr ends
          /\ mpc' = "fini" /\ mi' = -1
          /\ UNCHANGED <<thread_count>>
     ELSE IF HasRoom(thread_count)
     THEN /\ thread_count' = thread_count + 1
          /\ mi' = FirstFree(slave_thread_id)
          /\ mpc' = IF FirstFree(slave_thread_id) = -1 THEN "fatal" ELSE "accept"
     ELSE \* slurm_cond_wait
          /\ mpc' = "cond_wait"
          /\ UNCHANGED <<thread_count, mi>>
  /\ UNCHANGED <<slave_thread_id, master_thread_id, shutdown_time>>
  /\ relblk' = FALSE
  /\ UNCHANGED <<retry_cnt, mtid, mintr, mconn>>
  /\ UNCHANGED <<wvars, wintr, peer, hist>>
  /\ UNCHANGED <<acct, woke, post>>

\* pthread_cond_wait may return without a broadcast.
SpuriousWakeup ==
  /\ mpc = "cond_wait"
  /\ mpc' = "acquire"
  /\ UNCHANGED <<shared, mi, retry_cnt, mtid, mintr, mconn, relblk, wvars, wintr, peer, hist>>
  /\ UNCHANGED <<acct, woke, post>>

\* slurm_accept_msg_conn returns a connection (rpc_mgr.c:128-145); c is
\* what its peer is going to send on it.
AcceptConn(c) ==
  /\ mpc = "accept" /\ ~mintr
  /\ mpc' = "create" /\ retry_cnt' = 0 /\ mintr' = FALSE
  /\ mconn' = c
  /\ post' = [post EXCEPT !.accepts = Count(@, shutdown_time)]
  /\ UNCHANGED <<shared, mi, mtid, relblk, wvars, wintr, peer, hist>>
  /\ UNCHANGED <<acct, woke>>

\* Mutant of AcceptFail: the loop continues without _free_server_thread.
AcceptFailKeeps ==
  /\ mpc = "accept"
  /\ mpc' = "acquire" /\ mintr' = FALSE
  /\ UNCHANGED <<shared, mi, retry_cnt, mtid, mconn, relblk>>
  /\ UNCHANGED <<wvars, wintr, peer, hist>>
  /\ UNCHANGED <<acct, woke, post>>

\* slurm_accept_msg_conn fails, with EINTR after a SIGUSR1 or with any
\* other error: _free_server_thread(0) and continue (rpc_mgr.c:128-135).
AcceptFail ==
  /\ mpc = "accept"
  /\ free_server_thread(0)
  /\ mpc' = "acquire" /\ mintr' = FALSE
  /\ UNCHANGED <<master_thread_id, shutdown_time, mi, retry_cnt, mtid, mconn, relblk>>
  /\ UNCHANGED <<wvars, wintr, peer, hist>>
  /\ UNCHANGED <<acct, woke, post>>

\* accept() was interrupted by SIGUSR1 (the handler is installed without
\* SA_RESTART): it returns EINTR, and the loop does as for any failure.
AcceptIntr ==
  /\ mintr
  /\ AcceptFail

\* pthread_create succeeds (rpc_mgr.c:146-149).  POSIX does not order the
\* store of the new identity into slave_thread_id[i] and the start of the
\* new thread, and the store is made without thread_count_lock: with
\* late = FALSE the store comes first, with late = TRUE the thread runs
\* before the store (StoreTid).
CreateThread(t, late) ==
  /\ mpc = "create"
  /\ t \in FreshTids
  /\ ResetThread(t, "recv_hdr", mconn)
  /\ mconn' = NoConn
  /\ post' = [post EXCEPT !.spawns = Count(@, shutdown_time)]
  /\ IF late
     THEN /\ mpc' = "store" /\ mtid' = t
          /\ UNCHANGED slave_thread_id
     ELSE /\ mpc' = "acquire" /\ mtid' = 0
          /\ slave_thread_id' = [slave_thread_id EXCEPT ![mi] = t]
  /\ UNCHANGED <<thread_count, master_thread_id, shutdown_time>>
  /\ UNCHANGED <<mi, retry_cnt, mintr, relblk>>

\* The store of pthread_create that the new thread has overtaken.
StoreTid ==
  /\ mpc = "store"
  /\ slave_thread_id' = [slave_thread_id EXCEPT ![mi] = mtid]
  /\ mpc' = "acquire" /\ mtid' = 0
  /\ UNCHANGED <<thread_count, master_thread_id, shutdown_time>>
  /\ UNCHANGED <<mi, retry_cnt, mintr, mconn, relblk, wvars, wintr, peer, hist>>
  /\ UNCHANGED <<acct, woke, post>>

\* pthread_create fails (rpc_mgr.c:146-159).  The first failure is retried
\* after usleep(1000); the second closes the socket and leaves the inner
\* while with break, back to the top of the accept loop.  The contents of
\* slave_thread_id[i] after a failed pthread_create are undefined: the slot
\* keeps its value or holds an identity g that names no thread.
CreateFail(g) ==
  /\ mpc = "create"
  /\ g = slave_thread_id[mi] \/ g \in FreshTids
  /\ slave_thread_id' = [slave_thread_id EXCEPT ![mi] = g]
  /\ IF retry_cnt > 0
     THEN mpc' = "acquire" /\ retry_cnt' = retry_cnt /\ mconn' = NoConn
     ELSE mpc' = "create" /\ retry_cnt' = retry_cnt + 1 /\ mconn' = mconn
  /\ UNCHANGED <<thread_count, master_thread_id, shutdown_time>>
  /\ UNCHANGED <<mi, mtid, mintr, relblk, wvars, wintr, peer, hist>>
  /\ UNCHANGED <<acct, woke, post>>

\* rpc_mgr.c:162-165 and _wait_for_thread_fini up to its usleep: the
\* listening socket is shut down; nothing more to do when no worker is
\* counted.
MasterDrain ==
  /\ mpc = "fini"
  /\ mpc' = IF thread_count = 0 THEN "exited" ELSE "grace"
  /\ UNCHANGED <<shared, mi, retry_cnt, mtid, mintr, mconn, relblk, wvars, wintr, peer, hist>>
  /\ UNCHANGED <<acct, woke, post>>

\* _wait_for_thread_fini after the grace period: SIGUSR1 to every identity
\* recorded in slave_thread_id, under the lock; then pthread_exit.
wait_for_thread_fini ==
  /\ mpc = "grace"
  /\ \E S \in SUBSET InPoll({t \in Tids : Recorded(t)}) :
        wintr' = wintr \cup S
  /\ mpc' = "exited"
  /\ UNCHANGED <<shared, mi, retry_cnt, mtid, mintr, mconn, relblk, wvars, peer, hist>>
  /\ UNCHANGED <<acct, woke, post>>

(***************************************************************************)
(* The shutdown coordinator.                                               *)
(***************************************************************************)
\* The daemon's signal handling sets shutdown_time (never cleared).
Shutdown ==
  /\ ~shutdown_time
  /\ shutdown_time' = TRUE
  /\ UNCHANGED <<thread_count, slave_thread_id, master_thread_id>>
  /\ UNCHANGED <<mvars, wvars, wintr, peer, hist>>
  /\ UNCHANGED <<acct, woke, post>>

\* Mutant of rpc_mgr_wake: the slot of every signalled identity is given
\* up by the signaller (the disabled SIGKILL loop of _wait_for_thread_fini).
rpc_mgr_wake_reaps ==
  /\ slave_thread_id' = [i \in Slots |-> 0]
  /\ thread_count' = thread_count - Cardinality({i \in Slots : slave_thread_id[i] # 0})
  /\ UNCHANGED <<master_thread_id, shutdown_time, mvars, wvars, wintr, peer, hist>>
  /\ UNCHANGED <<acct, woke, post>>

\* rpc_mgr_wake(): SIGUSR1 to the accept loop thread and to every identity
\* recorded in slave_thread_id, under the lock.
rpc_mgr_wake ==
  /\ \E m \in BOOLEAN :
        mintr' = (mintr \/ (m /\ master_thread_id # 0 /\ mpc = "accept"))
  /\ \E S \in SUBSET InPoll({t \in Tids : Recorded(t)}) :
        wintr' = wintr \cup S
  /\ woke' = (woke \/ shutdown_time)
  /\ UNCHANGED <<shared, mpc, mi, retry_cnt, mtid, mconn, relblk, wvars, peer, hist>>
  /\ UNCHANGED <<acct, post>>

(***************************************************************************)
(* The worker thread, _service_connection(), and _fd_readable().           *)
(***************************************************************************)
\* poll(&ufds, 1, -1) returns: an event on the socket, or EINTR.
PollReturns(t) == t \in wintr \/ stream[t] # <<>> \/ cstate[t] # "open"

\* Mutant of fd_readable: the socket's events are looked at before the
\* shutdown flag.
fd_readable_late(t) ==
  IF cstate[t] = "rst" THEN "false"
  ELSE IF stream[t] # <<>> THEN "true"
  ELSE IF cstate[t] = "fin" THEN "true"
  ELSE IF shutdown_time THEN "false"
  ELSE "again"

\* The value _fd_readable returns once poll has returned; "again" is the
\* continue after EINTR / EAGAIN.  shutdown_time is tested first, before
\* rc and revents.
fd_readable(t) ==
  IF shutdown_time THEN "false"
  ELSE IF cstate[t] = "rst" THEN "false"         \* POLLERR
  ELSE IF stream[t] # <<>> THEN "true"           \* POLLIN
  ELSE IF cstate[t] = "fin" THEN "true"          \* POLLIN, read returns 0
  ELSE "again"                                   \* rc == -1, errno == EINTR

\* The values read(fd, buf, n) can return on the non-blocking socket:
\* 0 at end of stream, 1..n bytes that have arrived, or -1: an error can
\* come up between poll() and read().
ReadResults(t, n) ==
  {-1} \cup
  (IF cstate[t] = "rst" THEN {}
   ELSE IF stream[t] = <<>> THEN (IF cstate[t] = "fin" THEN {0} ELSE {})
   ELSE 1..Min(n, Len(stream[t])))

\* Mutant of HdrOutcome: a failed read counts as the end of the stream.
HdrOutcomeLoose(msg_read) ==
  IF msg_read <= 0 THEN "eof"
  ELSE IF msg_read # 4 THEN "badread"
  ELSE "prefix"

\* rpc_mgr.c:202-210: what the one read of the length prefix amounts to,
\* by its result: 0 is the end of the stream, anything but
\* sizeof(nw_size) an error, and only 4 bytes are a length prefix.
HdrOutcome(msg_read) ==
  IF msg_read = 0 THEN "eof"
  ELSE IF msg_read # 4 THEN "badread"
  ELSE "prefix"

\* Leave the receive loop (break, or while(!fini) ends) for reason r.
LeaveLoop(t, r) ==
  /\ pc' = [pc EXCEPT ![t] = "teardown"]
  /\ why' = [why EXCEPT ![t] = r]

\* rpc_mgr.c:199-221: while (!fini) { if (!_fd_readable(fd)) break; then
\* one read of the length prefix, ntohl, the length test, xmalloc of the
\* message buffer.
RecvHdr(t) ==
  /\ Alive /\ pc[t] = "recv_hdr"
  /\ PollReturns(t)
  /\ wintr' = wintr \ {t}
  /\ CASE fd_readable(t) = "again" ->
            UNCHANGED <<pc, why, stream, msg_size, offset, msg, nhdr, nbody>>
       [] fd_readable(t) = "false" ->
            /\ LeaveLoop(t, IF shutdown_time THEN "shutdown" ELSE "notreadable")
            /\ UNCHANGED <<stream, msg_size, offset, msg, nhdr, nbody>>
       [] OTHER ->
            \E msg_read \in ReadResults(t, 4) :
              /\ stream' = [stream EXCEPT ![t] =
                    IF msg_read > 0 THEN SubSeq(@, msg_read + 1, Len(@)) ELSE @]
              /\ IF HdrOutcome(msg_read) # "prefix"
                 THEN /\ LeaveLoop(t, HdrOutcome(msg_read))
                      /\ UNCHANGED <<msg_size, offset, msg, nhdr, nbody>>
                 ELSE LET sz == ntohl(SubSeq(stream[t], 1, 4)) IN
                      /\ msg_size' = [msg_size EXCEPT ![t] = sz]
                      /\ nhdr' = [nhdr EXCEPT ![t] = @ + 1]
                      /\ nbody' = [nbody EXCEPT ![t] = 0]
                      /\ IF BadSize(sz)
                         THEN LeaveLoop(t, "badsize") /\ UNCHANGED <<offset, msg>>
                         ELSE /\ pc' = [pc EXCEPT ![t] = "recv_body"]
                              /\ offset' = [offset EXCEPT ![t] = 0]
                              /\ msg' = [msg EXCEPT ![t] = <<>>]
                              /\ UNCHANGED why
  /\ UNCHANGED <<shared, mvars, cstate>>
  /\ UNCHANGED <<fini, first, rc, buffer>>
  /\ UNCHANGED <<sent, reqs, nsend, nerr, inflight, ntear>>
  /\ UNCHANGED <<acct, woke, post>>

\* rpc_mgr.c:222-232: one pass of while (msg_size > offset): _fd_readable,
\* then read into msg + offset; not readable, or a result <= 0, leaves the
\* inner loop, otherwise offset advances and the loop test is repeated.
RecvBody(t) ==
  /\ Alive /\ pc[t] = "recv_body"
  /\ PollReturns(t)
  /\ wintr' = wintr \ {t}
  /\ CASE fd_readable(t) = "again" ->
            UNCHANGED <<pc, stream, offset, msg, nbody>>
       [] fd_readable(t) = "false" ->
            /\ pc' = [pc EXCEPT ![t] = "dispatch"]
            /\ UNCHANGED <<stream, offset, msg, nbody>>
       [] OTHER ->
            \E msg_read \in ReadResults(t, msg_size[t] - offset[t]) :
              IF msg_read <= 0
              THEN /\ pc' = [pc EXCEPT ![t] = "dispatch"]
                   /\ UNCHANGED <<stream, offset, msg, nbody>>
              ELSE /\ msg' = [msg EXCEPT ![t] =
                         StoreAt(@, offset[t], SubSeq(stream[t], 1, msg_read))]
                   /\ stream' = [stream EXCEPT ![t] =
                         SubSeq(@, msg_read + 1, Len(@))]
                   /\ offset' = [offset EXCEPT ![t] = @ + msg_read]
                   /\ nbody' = [nbody EXCEPT ![t] = @ + 1]
                   /\ pc' = [pc EXCEPT ![t] =
                         IF msg_size[t] > offset[t] + msg_read THEN "recv_body"
                         ELSE "dispatch"]
  /\ UNCHANGED <<shared, mvars, cstate>>
  /\ UNCHANGED <<fini, first, msg_size, rc, buffer>>
  /\ UNCHANGED <<sent, reqs, nhdr, nsend, nerr, inflight, why, ntear>>
  /\ UNCHANGED <<acct, woke, post>>

\* Mutant of FatalRc: every failure status ends the session.
AnyFailure(r) == r # "SLURM_SUCCESS" /\ r # "ACCOUNTING_FIRST_REG"

\* The statuses of proc_req after which the session is marked finished.
FatalRc(r) == r = "ESLURM_ACCESS_DENIED" \/ r = "SLURM_PROTOCOL_VERSION_ERROR"

\* Mutant of FirstArg: proc_req is always told the message is the first.
AlwaysFirst(f) == TRUE

\* The first argument proc_req is called with, from the local `first'.
FirstArg(f) == f

\* Mutant of Complete: a short message passes the test.
AtMost(sz, off) == off <= sz

\* The test after the inner loop: the whole message has been read.
Complete(sz, off) == sz = off

\* Mutant of AfterDispatch: the next length prefix is read before the
\* response is sent.
ReadAhead == "recv_hdr"

\* What follows proc_req / slurm_persist_make_rc_msg: the response is sent
\* before anything else is read.
AfterDispatch == "send"

\* What proc_req does to the connection besides answering (proc_req.c is
\* not part of this model's sources): nothing, or it notes the port of a
\* persistent connection, or it also enters the connection in
\* registered_clusters, where a connection has at most one entry.
RegEffects == {"none", "port", "register"}
RemPort == 1
ProcReqPort(g, old) == IF g = "none" THEN old ELSE RemPort
ProcReqRegistry(g, reg, c) == IF g = "register" THEN reg \cup {c} ELSE reg

\* rpc_mgr.c:233-249: a complete message goes to proc_req, which returns
\* the status rc and the response buffer; an incomplete one gets the
\* "Bad offset" response and ends the session.
Dispatch(t) ==
  /\ Alive /\ pc[t] = "dispatch"
  /\ IF Complete(msg_size[t], offset[t])
     THEN \E r \in RcCodes, g \in RegEffects :
            /\ rem_port' = [rem_port EXCEPT ![t] = ProcReqPort(g, @)]
            /\ registered' = ProcReqRegistry(g, registered, t)
            /\ reqs' = [reqs EXCEPT ![t] =
                  Append(@, [msg |-> msg[t], size |-> msg_size[t],
                             first |-> FirstArg(first[t]),
                             sd |-> shutdown_time])]
            /\ rc' = [rc EXCEPT ![t] = r]
            /\ first' = [first EXCEPT ![t] = FALSE]
            /\ fini' = [fini EXCEPT ![t] = @ \/ FatalRc(r)]
            /\ buffer' = [buffer EXCEPT ![t] = "reply"]
            /\ inflight' = [inflight EXCEPT ![t] = @ + 1]
            /\ UNCHANGED nerr
     ELSE /\ buffer' = [buffer EXCEPT ![t] = "rc_msg"]
          /\ fini' = [fini EXCEPT ![t] = TRUE]
          /\ nerr' = [nerr EXCEPT ![t] = @ + 1]
          /\ UNCHANGED <<reqs, rc, first, inflight, rem_port, registered>>
  /\ pc' = [pc EXCEPT ![t] = AfterDispatch]
  /\ UNCHANGED <<shared, mvars, wintr, peer>>
  /\ UNCHANGED <<msg_size, offset, msg>>
  /\ UNCHANGED <<sent, nhdr, nbody, nsend, why, ntear, tlog, woke, post>>

\* rpc_mgr.c:251-264 and the loop test: send the response; a failed send
\* ends the session; free the buffers; go round while (!fini).
Send(t) ==
  /\ Alive /\ pc[t] = "send"
  /\ \E ok \in BOOLEAN :
       /\ fini' = [fini EXCEPT ![t] = @ \/ ~ok]
       /\ IF fini[t] \/ ~ok
          THEN LeaveLoop(t, IF ok THEN "fini" ELSE "sendfail")
          ELSE pc' = [pc EXCEPT ![t] = "recv_hdr"] /\ UNCHANGED why
  /\ nsend' = [nsend EXCEPT ![t] = @ + 1]
  /\ inflight' = [inflight EXCEPT ![t] = 0]
  /\ buffer' = [buffer EXCEPT ![t] = "null"]
  /\ msg' = [msg EXCEPT ![t] = <<>>]
  /\ rc' = [rc EXCEPT ![t] = "SLURM_SUCCESS"]   \* dead until the next proc_req
  /\ UNCHANGED <<shared, mvars, wintr, peer>>
  /\ UNCHANGED <<first, msg_size, offset>>
  /\ UNCHANGED <<sent, reqs, nhdr, nbody, nerr, ntear>>
  /\ UNCHANGED <<acct, woke, post>>

\* if (conn->conn.rem_port): the connection is a persistent one.
Persistent(port) == port # 0

\* Mutant of RemoveEntry: the scan deletes every entry.
RemoveAll(reg, c) == {}

\* The scan of registered_clusters under registered_lock: the entry that
\* is this connection is deleted, and the scan stops.
RemoveEntry(reg, c) == reg \ {c}

\* The calls of teardown in order, for a connection with rem_port = port,
\* shutdown_time read as sd, and an entry in the registry or not.
TeardownCalls(port, sd, found) ==
  (IF Persistent(port)
   THEN (IF ~sd
         THEN <<"fini_ctld", "lock">> \o
              (IF found THEN <<"remove">> ELSE <<>>) \o <<"unlock">>
         ELSE <<>>) \o <<"commit_final">>
   ELSE <<>>) \o <<"close", "destroy">>

\* rpc_mgr.c:266-303: registry removal, commit, close of the storage
\* handle, destruction of the connection.
Teardown(t) ==
  /\ Alive /\ pc[t] = "teardown"
  /\ ntear' = [ntear EXCEPT ![t] = @ + 1]
  /\ tlog' = [tlog EXCEPT ![t] =
        TeardownCalls(rem_port[t], shutdown_time, t \in registered)]
  /\ registered' = IF Persistent(rem_port[t]) /\ ~shutdown_time
                   THEN RemoveEntry(registered, t) ELSE registered
  /\ UNCHANGED <<rem_port, woke, post>>
  /\ pc' = [pc EXCEPT ![t] = "release"]
  /\ UNCHANGED <<shared, mvars, wintr, peer>>
  /\ UNCHANGED <<fini, first, msg_size, offset, msg, rc, buffer>>
  /\ UNCHANGED <<sent, reqs, nhdr, nbody, nsend, nerr, inflight, why>>

\* rpc_mgr.c:304-305: _free_server_thread(pthread_self()); return NULL.
Release(t) ==
  /\ Alive /\ pc[t] = "release"
  /\ free_server_thread(t)
  /\ mpc' = Broadcast(mpc)
  /\ relblk' = (relblk \/ mpc = "cond_wait")
  /\ ResetThread(t, "none", NoConn)
  /\ UNCHANGED post
  /\ UNCHANGED <<master_thread_id, shutdown_time, mi, retry_cnt, mtid, mintr, mconn>>

(***************************************************************************)
(* The peer of a connection.                                               *)
(***************************************************************************)
\* The connection of worker t is open on the server side.
Serving(t) == pc[t] \notin {"none", "teardown", "release"}

\* The lengths a peer declares: the valid ones it can deliver in full, the
\* largest valid one, and the invalid ones on both sides of the interval.
Lens == {0, 1} \cup (2..MaxPayload) \cup {MAX_MSG_SIZE, MAX_MSG_SIZE + 1}

\* A frame as the peer writes it: h bytes of the prefix of declared length
\* L, then d bytes of payload.
FrameShapes ==
  {f \in [L : Lens, h : 1..4, d : 0..MaxPayload] :
      f.d <= f.L /\ (f.h < 4 => f.d = 0)}
Whole(f) == f.h = 4 /\ f.d = f.L /\ ~BadSize(f.L)
FrameBytes(f, k) == SubSeq(EncodeLen(f.L), 1, f.h) \o Payload(k, f.d)

\* What a peer sends on one connection: up to MaxFrames frames, every one
\* but the last whole.
RECURSIVE ConnsOf(_)
ConnsOf(k) ==
  IF k > MaxFrames THEN {NoConn}
  ELSE {NoConn} \cup
       {[stream |-> FrameBytes(f, k) \o
                    (IF Whole(f) THEN c.stream ELSE <<>>),
         sent |-> IF Whole(f) THEN <<Payload(k, f.d)>> \o c.sent ELSE <<>>] :
          f \in FrameShapes, c \in ConnsOf(k + 1)}
Conns == ConnsOf(1)

\* The peer closes the connection.
PeerClose(t) ==
  /\ Alive /\ Serving(t) /\ cstate[t] = "open"
  /\ cstate' = [cstate EXCEPT ![t] = "fin"]
  /\ UNCHANGED <<shared, mvars, wvars, wintr, stream, hist>>
  /\ UNCHANGED <<acct, woke, post>>

\* The connection fails (reset by the peer).
PeerReset(t) ==
  /\ Alive /\ Serving(t) /\ cstate[t] # "rst"
  /\ cstate' = [cstate EXCEPT ![t] = "rst"]
  /\ UNCHANGED <<shared, mvars, wvars, wintr, stream, hist>>
  /\ UNCHANGED <<acct, woke, post>>

(***************************************************************************)
(* Specifications.                                                         *)
(***************************************************************************)
\* No connection is being served.
Idle == \A t \in Tids : pc[t] = "none"

\* The accept loop on its normal path, and the shutdown coordinator.
Manager ==
  \/ MasterStart
  \/ wait_for_server_thread
  \/ \E t \in Tids, late \in BOOLEAN : CreateThread(t, late)
  \/ StoreTid
  \/ AcceptIntr
  \/ MasterDrain
  \/ wait_for_thread_fini
  \/ Shutdown
  \/ rpc_mgr_wake

\* Failures of accept and pthread_create, spurious wake-ups.
Failures ==
  \/ SpuriousWakeup
  \/ AcceptFail
  \/ \E g \in 0..MaxTid : CreateFail(g)

\* The steps of a worker whose peer sends no frame.
Sessions ==
  \/ \E t \in Tids : RecvHdr(t)
  \/ \E t \in Tids : Teardown(t)
  \/ \E t \in Tids : Release(t)

\* The steps of a worker on a frame.
Frames ==
  \/ \E t \in Tids : RecvBody(t)
  \/ \E t \in Tids : Dispatch(t)
  \/ \E t \in Tids : Send(t)

\* Admission: concurrent connections, failing accept and pthread_create;
\* the peers send no frame, they stay connected or close.
Next ==
  \/ Manager
  \/ Failures
  \/ Sessions
  \/ AcceptConn(NoConn)
  \/ \E t \in Tids : PeerClose(t)

Spec == Init /\ [][Next]_vars

\* The protocol of a connection: one connection at a time, accept and
\* pthread_create do not fail; the peer sends any frames, whole or cut
\* short.
NextConn ==
  \/ Manager
  \/ Sessions
  \/ Frames
  \/ \E c \in Conns : Idle /\ AcceptConn(c)
  \/ \E t \in Tids : PeerClose(t)
  \/ \E t \in Tids : PeerReset(t)

SpecConn == Init /\ [][NextConn]_vars

\* A connection on which the peer sends one whole frame of two bytes.
OneFrame ==
  [stream |-> EncodeLen(2) \o Payload(1, 2), sent |-> <<Payload(1, 2)>>]

\* Registration: concurrent connections, each with one whole frame that
\* proc_req may take as a registration; accept and pthread_create do not
\* fail, the new thread starts after its identity is stored, and the
\* workers are signalled by _wait_for_thread_fini only.
NextReg ==
  \/ MasterStart
  \/ wait_for_server_thread
  \/ \E t \in Tids : CreateThread(t, FALSE)
  \/ MasterDrain
  \/ wait_for_thread_fini
  \/ Shutdown
  \/ Sessions
  \/ Frames
  \/ AcceptConn(OneFrame)
  \/ \E t \in Tids : PeerClose(t)

SpecReg == Init /\ [][NextReg]_vars

\* The program when pthread_create stores the new identity in
\* slave_thread_id[i] before the new thread runs: Next without the
\* overtaken store.
NextOrdered ==
  \/ MasterStart
  \/ wait_for_server_thread
  \/ \E t \in Tids : CreateThread(t, FALSE)
  \/ AcceptIntr
  \/ MasterDrain
  \/ wait_for_thread_fini
  \/ Shutdown
  \/ rpc_mgr_wake
  \/ Failures
  \/ Sessions
  \/ AcceptConn(NoConn)
  \/ \E t \in Tids : PeerClose(t)

SpecOrdered == Init /\ [][NextOrdered]_vars

\* Types of the program state.
TypeOK ==
  /\ thread_count \in Int
  /\ slave_thread_id \in [Slots -> 0..MaxTid]
  /\ master_thread_id \in {0, MasterTid}
  /\ shutdown_time \in BOOLEAN
  /\ mpc \in {"init", "acquire", "cond_wait", "accept", "create", "store",
              "fini", "grace", "exited", "fatal"}
  /\ pc \in [Tids -> {"none", "recv_hdr", "recv_body", "dispatch", "send",
                      "teardown", "release"}]
  /\ \A t \in Tids : offset[t] = Len(msg[t]) \/ msg[t] = <<>>
  /\ woke \in BOOLEAN
  /\ post \in [accepts : 0..MaxCount, spawns : 0..MaxCount]
  /\ rem_port \in [Tids -> {0, RemPort}]
  /\ registered \subseteq Tids

(***************************************************************************)
(* Fair scheduling: a thread that can take a step of its own eventually    *)
(* takes it.  Nothing is assumed of the environment: connections, failures *)
(* of accept and pthread_create, signals, spurious wake-ups, the shutdown  *)
(* request.                                                                *)
(***************************************************************************)
\* pthread_create returns, with a new thread or with an error.
CreateReturns ==
  \/ \E t \in Tids, late \in BOOLEAN : CreateThread(t, late)
  \/ \E g \in 0..MaxTid : CreateFail(g)

Fairness ==
  /\ WF_vars(MasterStart)
  /\ WF_vars(CreateReturns)
  /\ WF_vars(wait_for_server_thread)
  /\ WF_vars(StoreTid)
  /\ WF_vars(AcceptIntr)
  /\ WF_vars(MasterDrain)
  /\ WF_vars(wait_for_thread_fini)
  /\ \A t \in Tids : WF_vars(RecvHdr(t))
  /\ \A t \in Tids : WF_vars(Teardown(t))
  /\ \A t \in Tids : WF_vars(Release(t))

SpecLive == Spec /\ Fairness

(***************************************************************************)
(* Admission.                                                              *)
(***************************************************************************)
\* The workers that have been started and have not returned.
Running == {t \in Tids : pc[t] # "none"}

\* A step in which a slot is released: a worker's _free_server_thread, or
\* the accept loop's after a failed accept.
ReleaseStep ==
  \/ \E t \in Tids : pc[t] = "release" /\ pc'[t] = "none"
  \/ mpc = "accept" /\ mpc' = "acquire"

\* C1: in every reachable state thread_count is within [0, MAX_THREAD_COUNT]
\* and the workers running together are no more than thread_count, hence no
\* more than the capacity.
C1_AdmissionBound ==
  /\ thread_count >= 0
  /\ thread_count <= MAX_THREAD_COUNT
  /\ Cardinality(Running) <= thread_count

\* C1 witness: the capacity is reached by workers running together.
C1_Witness ==
  /\ thread_count = MAX_THREAD_COUNT
  /\ Cardinality(Running) = MAX_THREAD_COUNT

\* The part of C2 that no run of the code contradicts: at capacity with
\* the shutdown flag unset acquire does not return, and thread_count goes
\* down in release steps only.
C2_NoReturnAtCapacity ==
  [][ /\ (/\ mpc \in {"acquire", "cond_wait"}
          /\ thread_count = MAX_THREAD_COUNT
          /\ ~shutdown_time) => mpc' \in {"acquire", "cond_wait"}
      /\ thread_count' < thread_count => ReleaseStep ]_vars

\* C2 as claimed: at capacity with the shutdown flag unset acquire does not
\* return until a release has happened, and once a release has happened
\* while the acquirer was blocked, with the flag unset, the acquirer
\* eventually obtains a slot.
C2_Original ==
  /\ C2_NoReturnAtCapacity
  /\ (relblk /\ ~shutdown_time) ~> (mpc = "accept")

\* C2 as amended: ... the acquirer eventually obtains a slot, or finds the
\* shutdown flag set when it tests it again and returns the no-slot result.
C2_WokenAcquires ==
  /\ C2_NoReturnAtCapacity
  /\ (relblk /\ ~shutdown_time) ~> (mpc = "accept" \/ shutdown_time)

\* C2 witness: the acquirer was blocked at capacity, a release has woken
\* it, the flag is unset and a slot is free.
C2_Witness ==
  /\ relblk /\ ~shutdown_time
  /\ mpc = "acquire"
  /\ thread_count = MAX_THREAD_COUNT - 1

\* C4: the shutdown wake-up, the setting of the shutdown flag and the
\* second signalling pass after the grace period leave thread_count and
\* slave_thread_id as they are, however often and whenever they happen.
C4_WakeKeepsSlots ==
  [][ (rpc_mgr_wake \/ Shutdown \/ MasterDrain \/ wait_for_thread_fini)
        => /\ thread_count' = thread_count
           /\ slave_thread_id' = slave_thread_id ]_vars

\* C4 witness: the flag is set and the wake-up has interrupted a recorded
\* worker that still holds its slot.
C4_Witness ==
  /\ shutdown_time
  /\ \E t \in Tids : t \in wintr /\ Recorded(t) /\ pc[t] = "recv_hdr"
  /\ thread_count > 0

(***************************************************************************)
(* The session of one connection.                                          *)
(***************************************************************************)
\* Thread t returns from _service_connection in this step.
Returns(t) == pc[t] = "release" /\ pc'[t] = "none"

\* The slots that record identity t.
SlotsOf(t) == {i \in Slots : slave_thread_id[i] = t}

\* C3: on every exit path of the receive loop teardown has run exactly
\* once when the worker releases, the release takes one off thread_count
\* and clears the worker's own slot and no other, and a connection that
\* sent one well-formed frame and closed has had exactly one proc_req call.
C3_TeardownAndRelease ==
  /\ [](\A t \in Tids :
          /\ ntear[t] <= 1
          /\ pc[t] = "release" =>
               /\ ntear[t] = 1
               /\ why[t] # "running"
               /\ (why[t] = "eof" /\ Len(sent[t]) = 1) => Len(reqs[t]) = 1)
  /\ [][\A t \in Tids : Returns(t) =>
          /\ thread_count' = thread_count - 1
          /\ \E i \in Slots :
               /\ slave_thread_id[i] = t
               /\ slave_thread_id' = [slave_thread_id EXCEPT ![i] = 0]]_vars

\* What the code does keep of C3: teardown once, one release that takes
\* one off thread_count and clears at most the worker's own slot.
C3_Kept ==
  /\ [](\A t \in Tids :
          /\ ntear[t] <= 1
          /\ pc[t] = "release" =>
               /\ ntear[t] = 1
               /\ why[t] # "running"
               /\ (why[t] = "eof" /\ Len(sent[t]) = 1) => Len(reqs[t]) = 1)
  /\ [][\A t \in Tids : Returns(t) =>
          /\ thread_count' = thread_count - 1
          /\ \/ slave_thread_id' = slave_thread_id /\ SlotsOf(t) = {}
             \/ \E i \in Slots :
                  /\ slave_thread_id[i] = t
                  /\ slave_thread_id' = [slave_thread_id EXCEPT ![i] = 0]]_vars

\* C3: a worker is about to release while pthread_create has not yet
\* stored its identity in the slot acquired for it.
C3_ReleaseBeforeStore ==
  \E t \in Tids : pc[t] = "release" /\ mpc = "store" /\ mtid = t /\ SlotsOf(t) = {}

(***************************************************************************)
(* The frames of one connection.                                           *)
(***************************************************************************)
\* Worker t is past its receive loop.
Left(t) == pc[t] \in {"teardown", "release"}

\* Responses owed so far: one for each proc_req call, one for each
\* synthesized error.
Answered(t) == Len(reqs[t]) + nerr[t]

\* C5: a length prefix of 0, 1 or more than 16 MiB makes the worker leave
\* the receive loop at once: no payload byte of that frame is read, no
\* proc_req call and no response are made for it, and the worker is at
\* teardown; a worker reading a payload, dispatching or sending holds a
\* length within [2, 16 MiB].
C5_BadLengthDropped ==
  \A t \in Tids :
    /\ why[t] = "badsize" =>
         /\ msg_size[t] < 2 \/ msg_size[t] > 16777216
         /\ Left(t)
         /\ nbody[t] = 0
         /\ Answered(t) = nhdr[t] - 1
         /\ nsend[t] = nhdr[t] - 1
         /\ inflight[t] = 0 /\ buffer[t] = "null"
    /\ pc[t] \in {"recv_body", "dispatch", "send"} =>
         /\ msg_size[t] >= 2 /\ msg_size[t] <= 16777216
         /\ why[t] = "running"
    /\ (Left(t) /\ nhdr[t] > 0 /\ (msg_size[t] < 2 \/ msg_size[t] > 16777216))
         => why[t] = "badsize"

\* C5 witness: a second frame declares 16 MiB + 1 after a first one was
\* answered, and the worker is at teardown.
C5_Witness ==
  \E t \in Tids :
    /\ why[t] = "badsize" /\ msg_size[t] = 16777217
    /\ nhdr[t] = 2 /\ nsend[t] = 1 /\ pc[t] = "teardown"

\* C6: the requests of a connection are handled one at a time in arrival
\* order: the i-th proc_req call is on the i-th frame, at most one request
\* is in flight, and whenever a length prefix or a payload is being read
\* every earlier request has had its response sent.
C6_OneAtATime ==
  \A t \in Tids :
    /\ inflight[t] <= 1
    /\ Len(reqs[t]) <= Len(sent[t])
    /\ \A i \in 1..Len(reqs[t]) : reqs[t][i].msg[1] = PayloadByte(i, 1)
    /\ pc[t] \in {"recv_hdr", "recv_body", "dispatch"} =>
         /\ inflight[t] = 0
         /\ nsend[t] = Answered(t)
         /\ nhdr[t] \in {Answered(t), Answered(t) + 1}
    /\ pc[t] = "send" => nsend[t] = Answered(t) - 1 /\ nhdr[t] = Answered(t)

\* C6 witness: the second frame is being read after the first was
\* answered.
C6_Witness ==
  \E t \in Tids :
    /\ pc[t] = "recv_body" /\ nhdr[t] = 2
    /\ Len(reqs[t]) = 1 /\ nsend[t] = 1

\* C7: the first proc_req call of a connection has first = true, every
\* later one first = false, and the flag is still set as long as no call
\* was made, whatever was rejected or cut short before.
C7_FirstFlag ==
  \A t \in Tids :
    /\ \A i \in 1..Len(reqs[t]) : reqs[t][i].first = (i = 1)
    /\ pc[t] # "none" => (first[t] = (Len(reqs[t]) = 0))

\* C7 witness: two calls were made on one connection.
C7_Witness ==
  \E t \in Tids : Len(reqs[t]) = 2 /\ reqs[t][2].first = FALSE

\* C8: whatever status proc_req returns the response is sent next; after
\* the send the session has ended exactly when the status was access
\* denied or protocol version error, or the send failed; otherwise the
\* worker reads the next length prefix.
C8_FailureStillAnswered ==
  [][\A t \in Tids :
       /\ (pc[t] = "dispatch" /\ pc'[t] # "dispatch") => pc'[t] = "send"
       /\ (pc[t] = "send" /\ buffer[t] = "reply" /\ pc'[t] # "send") =>
            /\ nsend'[t] = nsend[t] + 1
            /\ pc'[t] \in {"teardown", "recv_hdr"}
            /\ pc'[t] = "teardown" <=>
                 \/ rc[t] \in {"ESLURM_ACCESS_DENIED",
                               "SLURM_PROTOCOL_VERSION_ERROR"}
                 \/ why'[t] = "sendfail"]_vars

\* C8 witness: the response to a request that failed with SLURM_ERROR was
\* sent and the next frame is awaited.
C8_Witness ==
  \E t \in Tids :
    /\ pc[t] = "send" /\ buffer[t] = "reply" /\ rc[t] = "SLURM_ERROR"
    /\ ~fini[t]

\* C9: when fewer payload bytes than declared could be read, proc_req is
\* not called for that frame, one synthesized error response is made and
\* sent, the session is marked finished, no further length prefix is read
\* and the worker goes to teardown.
C9_ShortRead ==
  /\ [](\A t \in Tids :
          /\ nerr[t] <= 1
          /\ nerr[t] = 1 =>
               /\ offset[t] < msg_size[t]
               /\ fini[t]
               /\ pc[t] \in {"send", "teardown", "release"}
               /\ Len(reqs[t]) = nhdr[t] - 1
               /\ nsend[t] = IF pc[t] = "send" THEN nhdr[t] - 1 ELSE nhdr[t]
          /\ (pc[t] = "send" /\ offset[t] < msg_size[t]) =>
               nerr[t] = 1 /\ buffer[t] = "rc_msg")
  /\ [][\A t \in Tids :
          /\ (pc[t] = "dispatch" /\ offset[t] < msg_size[t]
                /\ pc'[t] # "dispatch") =>
               /\ reqs'[t] = reqs[t]
               /\ nerr'[t] = nerr[t] + 1
               /\ pc'[t] = "send"
          /\ (pc[t] = "send" /\ nerr[t] = 1 /\ pc'[t] # "send") =>
               pc'[t] = "teardown" /\ nhdr'[t] = nhdr[t]]_vars

\* C9 witness: one byte of a declared two was read, the error response
\* was sent and the worker is at teardown.
C9_Witness ==
  \E t \in Tids :
    /\ nerr[t] = 1 /\ pc[t] = "teardown"
    /\ msg_size[t] = 2 /\ offset[t] = 1 /\ nsend[t] = nhdr[t]

\* C10: a payload read in any chunks is put together in order: every
\* proc_req call is made once per frame with exactly the bytes the peer
\* sent for that frame and with their number as size, never with fewer or
\* more bytes than declared.
C10_Reassembled ==
  \A t \in Tids :
    /\ Len(reqs[t]) <= Len(sent[t])
    /\ Len(reqs[t]) <= nhdr[t]
    /\ \A i \in 1..Len(reqs[t]) :
         /\ reqs[t][i].msg = sent[t][i]
         /\ reqs[t][i].size = Len(sent[t][i])
    /\ (pc[t] \in {"recv_body", "dispatch"}) => Len(msg[t]) = offset[t]
    /\ why[t] = "eof" => Len(reqs[t]) = Len(sent[t])

\* C10 witness: a payload of two bytes was read in two reads and handed to
\* proc_req.
C10_Witness ==
  \E t \in Tids :
    /\ pc[t] = "send" /\ buffer[t] = "reply"
    /\ nbody[t] = 2 /\ msg_size[t] = 2
    /\ reqs[t][Len(reqs[t])].msg = <<PayloadByte(Len(reqs[t]), 1),
                                     PayloadByte(Len(reqs[t]), 2)>>

(***************************************************************************)
(* The accept loop and the admission gate on their failure paths.          *)
(***************************************************************************)
\* The inner while of rpc_mgr is left with break: pthread_create has
\* failed for the second time.
GivesUp == mpc = "create" /\ retry_cnt > 0 /\ mpc' = "acquire" /\ pc' = pc

\* C11: when pthread_create fails twice for an accepted connection the
\* accept loop releases the slot it acquired: thread_count is back at its
\* value before the acquire and the slot index is free again.
C11_SlotReleased ==
  [][GivesUp => /\ thread_count' = thread_count - 1
                /\ slave_thread_id'[mi] = 0]_vars

\* What the code does on that path: the connection is dropped, no worker
\* is started, and thread_count keeps the unit taken by the acquire.
C11_Kept ==
  [][GivesUp => /\ thread_count' = thread_count
                /\ mconn' = NoConn]_vars

\* C11: the whole capacity is taken although no worker runs and no
\* connection is being set up: the accept loop waits for a release that
\* nobody is left to make.
C11_Leaked ==
  /\ mpc = "cond_wait"
  /\ thread_count = MAX_THREAD_COUNT
  /\ Running = {}

\* slurm_accept_msg_conn has returned SLURM_SOCKET_ERROR in this step.
AcceptFailed == mpc = "accept" /\ mpc' # "accept" /\ mpc' # "create"

\* C12: a failed accept gives back the slot just acquired (thread_count
\* one less, slave_thread_id untouched), starts no worker and goes back to
\* acquire; the accept loop ends only with the shutdown flag set.
C12_AcceptFailureRetried ==
  [][/\ AcceptFailed =>
          /\ thread_count' = thread_count - 1
          /\ slave_thread_id' = slave_thread_id
          /\ pc' = pc
          /\ mpc' = "acquire"
     /\ (mpc # "fini" /\ mpc' = "fini") => shutdown_time]_vars

\* C12 witness: accept has failed with the shutdown flag unset and the
\* accept loop is acquiring again, while a worker is running.
C12_Witness ==
  /\ mpc = "acquire" /\ ~shutdown_time
  /\ mi # -1 /\ slave_thread_id[mi] = 0
  /\ thread_count = Cardinality(Running)
  /\ Running # {}

\* _wait_for_server_thread returns in this step (or ends in fatal).
AcquireEnds == mpc = "acquire" /\ mpc' \notin {"acquire", "cond_wait"}

\* C13: acquire returns -1 and leaves thread_count alone when it finds the
\* shutdown flag set, even with a slot free; otherwise, with thread_count
\* below the capacity, it adds one to thread_count and returns the lowest
\* index whose slot is empty.
C13_AcquireResult ==
  [][/\ (AcquireEnds /\ shutdown_time) =>
          /\ mpc' = "fini" /\ mi' = -1
          /\ thread_count' = thread_count
          /\ slave_thread_id' = slave_thread_id
     /\ (AcquireEnds /\ ~shutdown_time) =>
          /\ thread_count < MAX_THREAD_COUNT
          /\ thread_count' = thread_count + 1
          /\ mpc' = "accept"
          /\ mi' \in Slots /\ slave_thread_id[mi'] = 0
          /\ \A j \in Slots : j < mi' => slave_thread_id[j] # 0]_vars

\* What holds of C13 in every run: the shutdown flag is tested first, and
\* an index that is returned is the lowest empty one.
C13_Kept ==
  [][/\ (AcquireEnds /\ shutdown_time) =>
          /\ mpc' = "fini" /\ mi' = -1
          /\ thread_count' = thread_count
          /\ slave_thread_id' = slave_thread_id
     /\ (AcquireEnds /\ ~shutdown_time) =>
          /\ thread_count < MAX_THREAD_COUNT
          /\ thread_count' = thread_count + 1
          /\ mpc' = "accept" =>
               /\ mi' \in Slots /\ slave_thread_id[mi'] = 0
               /\ \A j \in Slots : j < mi' => slave_thread_id[j] # 0
          /\ mpc' # "accept" =>
               /\ mpc' = "fatal"
               /\ \A j \in Slots : slave_thread_id[j] # 0]_vars

\* C13: thread_count is below the capacity, the shutdown flag is unset,
\* and no slot is empty: acquire ends in fatal().
C13_OutOfSync ==
  /\ mpc = "acquire" /\ ~shutdown_time
  /\ thread_count < MAX_THREAD_COUNT
  /\ \A j \in Slots : slave_thread_id[j] # 0

(***************************************************************************)
(* Shutdown.                                                               *)
(***************************************************************************)
\* Worker t is in the readiness wait of _fd_readable.
InWait(t) == pc[t] \in {"recv_hdr", "recv_body"}

\* The accept loop has left its while and is shutting the listening
\* socket down, or has done so.
Draining == mpc \in {"fini", "grace", "exited"}

\* Shutdown has begun: the flag is set and rpc_mgr_wake was called.
ShutdownBegun == shutdown_time /\ woke

\* C14: once the shutdown flag is set and SIGUSR1 was sent by rpc_mgr_wake
\* and again by _wait_for_thread_fini, every worker that is in the
\* readiness wait eventually leaves it for teardown, though its client
\* sends nothing and does not close.
C14_WaitersLeave ==
  \A t \in Tids :
    (ShutdownBegun /\ mpc = "exited" /\ InWait(t)) ~> ~InWait(t)

\* What holds of C14: a worker whose poll() the signal has interrupted
\* finds the flag set and leaves the receive loop.
C14_Kept ==
  \A t \in Tids :
    (shutdown_time /\ t \in wintr /\ InWait(t)) ~> (~InWait(t) \/ ~Alive)

\* C14: both signalling passes are over, the flag is set, and a worker is
\* still in poll() with nothing to read and no signal pending.
C14_StillWaiting ==
  \E t \in Tids :
    /\ ShutdownBegun /\ mpc = "exited"
    /\ InWait(t) /\ ~PollReturns(t)

\* C15: once the shutdown flag is set and rpc_mgr_wake has signalled the
\* accept loop thread, the accept loop eventually leaves its while and
\* shuts the listening socket down, wherever it was when the signal came.
C15_AcceptLoopLeaves ==
  (ShutdownBegun /\ master_thread_id # 0) ~> Draining

\* What holds of C15: an accept loop that is not blocked, or whose
\* accept() the signal has interrupted, leaves its while.
C15_Kept ==
  (shutdown_time /\ (mintr \/ mpc \in {"acquire", "create", "store"}))
     ~> Draining

\* C15: shutdown has begun, the accept loop thread was signalled, and it
\* is blocked in accept() with no signal pending.
C15_StillAccepting ==
  /\ ShutdownBegun /\ master_thread_id # 0
  /\ mpc = "accept" /\ ~mintr

\* The step with which shutdown has begun.
ShutdownBegins == ~ShutdownBegun /\ ShutdownBegun'

\* C16: an accept loop blocked in acquire at full capacity is woken by the
\* beginning of shutdown itself, without a release by a worker.
C16_ShutdownWakesAcquirer ==
  [][(ShutdownBegins /\ mpc = "cond_wait") => mpc' = "acquire"]_vars

\* What holds of C16: the condition is signalled by releases only; the
\* beginning of shutdown leaves a blocked acquirer blocked.
C16_Kept ==
  [][(ShutdownBegins /\ mpc = "cond_wait") => mpc' = "cond_wait"]_vars

\* C16: shutdown has begun and the accept loop is still blocked in
\* slurm_cond_wait at full capacity.
C16_StillBlocked ==
  /\ ShutdownBegun
  /\ mpc = "cond_wait"
  /\ thread_count = MAX_THREAD_COUNT

\* A signalling pass over slave_thread_id: rpc_mgr_wake, or the pass of
\* _wait_for_thread_fini.
SignalPass == rpc_mgr_wake \/ wait_for_thread_fini

\* C17: a signalling pass sends SIGUSR1 only to identities recorded in
\* slave_thread_id, and none of them is the identity of a worker that has
\* completed its release.
C17_OnlyLiveSignalled ==
  [][SignalPass =>
       /\ wintr' \ wintr \subseteq {t \in Tids : Recorded(t)}
       /\ \A t \in Tids : Recorded(t) => pc[t] # "none"]_vars

\* What holds of C17: the interrupted workers are among the recorded ones.
C17_Kept ==
  [][SignalPass =>
       wintr' \ wintr \subseteq {t \in Tids : Recorded(t)}]_vars

\* C17: a signalling pass is about to run while slave_thread_id records
\* the identity of a worker that has returned.
C17_StaleRecorded ==
  /\ mpc = "grace"
  /\ \E t \in Tids : Recorded(t) /\ pc[t] = "none"

(***************************************************************************)
(* Teardown.                                                               *)
(***************************************************************************)
\* Teardown of worker t has run: its connection is destroyed.
TornDown(t) == pc[t] = "release"

\* Worker t runs its teardown in this step.
Tears(t) == pc[t] = "teardown" /\ pc'[t] = "release"

\* Call a comes before call b in the sequence of calls log.
Before(log, a, b) ==
  \E i, j \in 1..Len(log) : i < j /\ log[i] = a /\ log[j] = b

\* C18: on every exit path, for persistent and for one-shot connections,
\* teardown calls acct_storage_g_commit(handle, 1) and closes the storage
\* handle only after it.
C18_CommitThenClose ==
  \A t \in Tids : TornDown(t) => Before(tlog[t], "commit_final", "close")

\* What holds of C18: the handle is closed once on every exit path, after
\* the final commit when there is one; the commit is made for persistent
\* connections and for no other.
C18_Kept ==
  \A t \in Tids : TornDown(t) =>
    /\ Cardinality({i \in 1..Len(tlog[t]) : tlog[t][i] = "close"}) = 1
    /\ Persistent(rem_port[t]) => Before(tlog[t], "commit_final", "close")
    /\ (\E i \in 1..Len(tlog[t]) : tlog[t][i] = "commit_final")
         <=> Persistent(rem_port[t])

\* C18: a one-shot connection whose request was processed has been torn
\* down with no commit.
C18_OneShotClosed ==
  \E t \in Tids :
    /\ TornDown(t) /\ rem_port[t] = 0
    /\ Len(reqs[t]) = 1
    /\ tlog[t] = <<"close", "destroy">>

\* C19: teardown of a persistent connection with the shutdown flag unset
\* first closes out the cluster's backend session, then under the
\* registry mutex removes the entry that is this connection, if there is
\* one, and no other entry, and makes the final commit after both; with
\* the shutdown flag set it does neither and leaves the registry alone.
C19_RegistryRemoval ==
  [][\A t \in Tids :
       /\ (Tears(t) /\ rem_port[t] # 0 /\ ~shutdown_time) =>
            /\ registered' = {c \in registered : c # t}
            /\ tlog'[t] =
                 IF t \in registered
                 THEN <<"fini_ctld", "lock", "remove", "unlock",
                        "commit_final", "close", "destroy">>
                 ELSE <<"fini_ctld", "lock", "unlock",
                        "commit_final", "close", "destroy">>
       /\ (Tears(t) /\ rem_port[t] # 0 /\ shutdown_time) =>
            /\ registered' = registered
            /\ tlog'[t] = <<"commit_final", "close", "destroy">>]_vars

\* C19 witness: a registered connection was torn down with the flag
\* unset, its entry is gone and the entry of another connection is still
\* in the registry.
C19_Witness ==
  \E t \in Tids :
    /\ TornDown(t) /\ ~shutdown_time
    /\ Before(tlog[t], "fini_ctld", "remove")
    /\ t \notin registered
    /\ \E u \in registered : u # t /\ pc[u] \notin {"none", "release"}

\* C20: once a worker has destroyed its connection the registry holds no
\* entry for that connection, whether or not the shutdown flag was set at
\* teardown.
C20_NoEntryLeft ==
  \A t \in Tids : TornDown(t) => t \notin registered

\* What holds of C20: an entry is left behind only by a teardown that
\* found the shutdown flag set.
C20_Kept ==
  \A t \in Tids : (TornDown(t) /\ t \in registered) => shutdown_time

\* C20: a registered connection was destroyed with the shutdown flag set
\* and its entry is still in the registry.
C20_EntryLeft ==
  \E t \in Tids :
    /\ TornDown(t) /\ shutdown_time
    /\ t \in registered

(***************************************************************************)
(* The receive loop at shutdown and on a broken length prefix.             *)
(***************************************************************************)
\* The proc_req calls of worker t made with the shutdown flag set.
CallsAfterFlag(t) == {i \in 1..Len(reqs[t]) : reqs[t][i].sd}

\* C21: a worker calls proc_req at most once after the shutdown flag was
\* set: a readiness wait that returns with the flag set reports not
\* readable though data is there, so no length prefix is read and no
\* payload is completed after it.
C21_OneCallAfterFlag ==
  /\ [](\A t \in Tids : Cardinality(CallsAfterFlag(t)) <= 1)
  /\ [][\A t \in Tids :
          /\ (shutdown_time /\ pc[t] = "recv_hdr" /\ pc'[t] # "recv_hdr") =>
               /\ pc'[t] = "teardown" /\ why'[t] = "shutdown"
               /\ nhdr'[t] = nhdr[t] /\ stream'[t] = stream[t]
          /\ (shutdown_time /\ pc[t] = "recv_body" /\ pc'[t] # "recv_body") =>
               /\ pc'[t] = "dispatch"
               /\ offset'[t] = offset[t] /\ offset[t] < msg_size[t]
               /\ stream'[t] = stream[t]]_vars

\* C21 witness: the second request of a connection went to proc_req after
\* the flag was set, and the bytes of nothing more are read.
C21_Witness ==
  \E t \in Tids :
    /\ Len(reqs[t]) = 2 /\ reqs[t][2].sd /\ ~reqs[t][1].sd
    /\ why[t] = "shutdown"

\* C25: the length prefix is read with one read: a result of 1 to 3
\* bytes, or a failure, makes the worker leave the receive loop for
\* teardown with no proc_req call and no response for it; only a result of
\* 0 is the normal end of the connection, which leads to teardown too.
C25_PrefixNotReassembled ==
  /\ [](\A t \in Tids :
          /\ why[t] \in {"badread", "eof"} =>
               /\ Left(t)
               /\ nhdr[t] = Answered(t) /\ nsend[t] = Answered(t)
               /\ inflight[t] = 0 /\ buffer[t] = "null"
          /\ why[t] = "eof" => (stream[t] = <<>> /\ cstate[t] = "fin"))
  /\ [][\A t \in Tids :
          (/\ pc[t] = "recv_hdr"
           /\ Len(stream'[t]) < Len(stream[t])
           /\ Len(stream'[t]) > Len(stream[t]) - 4) =>
             /\ pc'[t] = "teardown" /\ why'[t] = "badread"
             /\ reqs'[t] = reqs[t] /\ nsend'[t] = nsend[t]
             /\ nhdr'[t] = nhdr[t]]_vars

\* C25 witness: two bytes of a second length prefix were read, though all
\* four had arrived, and the worker is at teardown with one request
\* answered.
C25_Witness ==
  \E t \in Tids :
    /\ why[t] = "badread" /\ pc[t] = "teardown"
    /\ Len(stream[t]) >= 2
    /\ Len(reqs[t]) = 1 /\ nsend[t] = 1 /\ nhdr[t] = 1

(***************************************************************************)
(* The accept loop after the shutdown flag; grants and releases.           *)
(***************************************************************************)
\* C22: with the shutdown flag set the accept loop accepts at most one
\* more connection and creates at most one more worker, on the slot it
\* held when the flag was set; every acquire that ends after that returns
\* -1 and grants nothing.
C22_OneMoreAfterFlag ==
  /\ [](post.accepts <= 1 /\ post.spawns <= 1)
  /\ [][/\ (AcquireEnds /\ shutdown_time) =>
             (mpc' = "fini" /\ mi' = -1 /\ thread_count' = thread_count)
        /\ (shutdown_time /\ mpc \in {"fini", "grace", "exited"}) =>
             mpc' \in {"fini", "grace", "exited"}
        /\ (post'.accepts > post.accepts \/ post'.spawns > post.spawns) =>
             (mi \in Slots /\ thread_count >= 1)]_vars

\* C22 witness: a connection was accepted and its worker created after the
\* flag was set, and the accept loop has left since.
C22_Witness ==
  /\ post.accepts = 1 /\ post.spawns = 1
  /\ mpc \in {"fini", "grace", "exited"}

\* A slot granted by acquire that the accept loop still holds itself: the
\* connection is not accepted yet, or has no worker yet.
MasterHolds == IF mpc \in {"accept", "create"} THEN 1 ELSE 0

\* C23: every _free_server_thread, of a finishing worker or of the accept
\* loop after a failed accept, finds thread_count above 0 and takes one
\* off it: the grants not yet released are never more than thread_count,
\* so the underflow branch is not taken.
C23_NoUnderflow ==
  /\ [](thread_count >= Cardinality(Running) + MasterHolds)
  /\ [][ReleaseStep =>
          (thread_count > 0 /\ thread_count' = thread_count - 1)]_vars

\* C23 witness: the accept loop releases after a failed accept while every
\* other unit of thread_count belongs to a running worker.
C23_Witness ==
  /\ mpc = "accept" /\ mintr
  /\ thread_count = MAX_THREAD_COUNT
  /\ Cardinality(Running) = MAX_THREAD_COUNT - 1
  /\ \E t \in Tids : pc[t] = "release"

\* The entries of slave_thread_id that hold an identity.
Occupied == {i \in Slots : slave_thread_id[i] # 0}

\* C24: when a worker's identity is in its slot before the worker can
\* release, the occupied entries of slave_thread_id are never more than
\* thread_count: an acquire that finds thread_count below the capacity
\* finds a free slot, fatal("No free slave_thread_id") is not reached, and
\* a releasing worker finds its own identity in the table.
C24_TableWithinCount ==
  /\ [](/\ Cardinality(Occupied) <= thread_count
        /\ HasRoom(thread_count) => FirstFree(slave_thread_id) \in Slots
        /\ mpc # "fatal")
  /\ [][/\ \A t \in Tids : Returns(t) => SlotsOf(t) # {}
        /\ (AcquireEnds /\ ~shutdown_time) =>
             (mi' \in Slots /\ slave_thread_id[mi'] = 0)]_vars

\* C24 witness: one worker is about to release with its identity in the
\* table, and the acquire was granted the one slot left free.
C24_Witness ==
  /\ mpc = "accept" /\ thread_count = MAX_THREAD_COUNT
  /\ Cardinality(Occupied) = MAX_THREAD_COUNT - 1
  /\ slave_thread_id[mi] = 0
  /\ \E t \in Tids : pc[t] = "release" /\ SlotsOf(t) # {}

=============================================================================
